---- MODULE Spec2Model ----
(***************************************************************************)
(* Model of the manufacturing-oee dashboards.                              *)
(*                                                                         *)
(*   src/app.py              in-memory dashboard: generate_live_data and   *)
(*                           the script body that appends and analyses     *)
(*   src/app1.py             database dashboard: insert_live_data,         *)
(*                           insert_critical_sample, the KPI logic, the    *)
(*                           daily peak and the window around it           *)
(*   src/live_data_writer.py stand-alone writer loop                       *)
(*                                                                         *)
(* Units.  Temperatures and vibrations of the per-machine state are kept   *)
(* in thousandths (68 degrees = 68000, 2.5 mm/s = 2500); the values of a   *)
(* sample are rounded to two decimals and kept in hundredths (68.00 =      *)
(* 6800).  Time is counted in seconds.                                     *)
(***************************************************************************)
EXTENDS Integers, Sequences, FiniteSets, TLC

\* ------------------------------------------------------------------------
\* Bounds of the model
\* ------------------------------------------------------------------------
\* calls of generate_live_data explored by SpecGen
MaxTicks == 8

\* calls of insert_live_data explored by SpecGen
MaxInserts == 24

\* script runs of app1.py and loop iterations of the writer explored by Spec
MaxRuns == 4

\* script runs of app.py explored by Spec
MaxAppRuns == 6

\* ticks of the earlier session that filled the table of app1.py
PriorTicks == 499

\* ------------------------------------------------------------------------
\* Helpers shared by the three programs
\* ------------------------------------------------------------------------
Max(a, b) == IF a >= b THEN a ELSE b

Min(a, b) == IF a <= b THEN a ELSE b

Range(s) == {s[i] : i \in 1..Len(s)}

\* round(x, 2) of a non-negative value x held in thousandths; the result is
\* in hundredths.  An exact half goes to the even neighbour.
Round2(x) ==
    LET q == x \div 10
        r == x % 10
    IN  IF r < 5 THEN q
        ELSE IF r > 5 THEN q + 1
        ELSE IF q % 2 = 0 THEN q ELSE q + 1

\* ------------------------------------------------------------------------
\* src/app.py : configuration
\* ------------------------------------------------------------------------
MACHINES == <<"M-1", "M-2", "M-3", "M-4", "M-5">>

MachineIds == Range(MACHINES)

BASELINES ==
    [m \in MachineIds |->
        CASE m = "M-1" -> [temp |-> 68000, vib |-> 2500]
          [] m = "M-2" -> [temp |-> 70000, vib |-> 3000]
          [] m = "M-3" -> [temp |-> 66000, vib |-> 2200]
          [] m = "M-4" -> [temp |-> 72000, vib |-> 3500]
          [] m = "M-5" -> [temp |-> 69000, vib |-> 2800]]

\* random.randint(4, 7): the length drawn at the onset of an episode
ANOMALY_LO == 4

ANOMALY_HI == 7

AnomalySteps == ANOMALY_LO..ANOMALY_HI

\* random.randint(12, 18) and random.randint(6, 10)
NormalUnits == 12..18

DegradedUnits == 6..10

\* the value of focus when every machine takes the quiet draws
NO_FOCUS == "none"

VARIABLES
    program,         \* the script this session runs
    focus,           \* the machine whose random draws are explored, or NO_FOCUS
    clock,           \* the wall clock, in seconds
    machine_state,   \* app.py   st.session_state.machine_state
    new_data,        \* app.py   rows returned by the last generate_live_data
    gen_calls,       \* app.py   number of generate_live_data calls so far
    episode_ticks,   \* app.py   per machine: ticks of the current or last episode
    machine_state1,  \* app1.py  st.session_state.machine_state
    inserted,        \* app1.py  rows written by the last insert_live_data
    insert_calls,    \* app1.py  number of insert_live_data calls so far
    runs,            \* script runs (writer: loop iterations) so far
    rerun_in,        \* seconds until the scheduled rerun, -1: none scheduled
    selected_machine,   \* sidebar selectbox
    refresh_rate,       \* sidebar slider
    pause_generation,   \* app1.py  sidebar checkbox
    data,            \* app.py   st.session_state.data
    next_refresh,    \* app.py   st.session_state.next_refresh
    appended,        \* app.py   every row generate_live_data has returned, in order
    db,              \* table machine_telemetry, rows kept by machine_id
    critical_samples,  \* app1.py  rows written by insert_critical_sample so far
    critical_cycles, \* app1.py  st.session_state.critical_cycles
    df,              \* rows of the selected machine the last run worked on
    latest,          \* <<df.iloc[-1]>> of the last run, <<>> without data
    machine_status,  \* app1.py  status of the last run, "NONE" without data
    estimated_downtime_minutes,  \* app1.py  in hundredths of a minute
    peak,            \* <<peak>> of the last run, <<>> when none was shown
    window_df,       \* app1.py  rows around the peak shown by the last run
    ticked,          \* the last run generated data
    tick_gap,        \* seconds between the last two ticks, -1: fewer than two
    gap_period,      \* the shorter refresh period in force at these two ticks
    last_tick,       \* <<time and refresh rate of the last tick>>, <<>>: none yet
    critical_ticks   \* ticks after which the status was CRITICAL

appGenVars == <<machine_state, new_data, gen_calls, episode_ticks>>

app1GenVars == <<machine_state1, inserted, insert_calls>>

widgetVars == <<selected_machine, refresh_rate, pause_generation>>

appVars == <<data, next_refresh, appended>>

app1Vars == <<db, critical_samples, critical_cycles, machine_status,
              estimated_downtime_minutes, window_df>>

viewVars == <<df, latest, peak>>

tickVars == <<ticked, tick_gap, gap_period, last_tick, critical_ticks>>

runVars == <<runs, rerun_in, widgetVars, appVars, app1Vars, viewVars, tickVars>>

vars == <<program, focus, clock, appGenVars, app1GenVars, runVars>>

\* ------------------------------------------------------------------------
\* src/app.py : generate_live_data, one machine
\* ------------------------------------------------------------------------
\* The random draws of one loop iteration.  np.random.normal is unbounded,
\* so the drift values include excursions far outside the clamp range.
DriftDraws == {<<153, -37>>, <<40000, 7000>>, <<-40000, -7000>>}

\* np.random.uniform(0.8, 1.5) and np.random.uniform(0.2, 0.4)
ExcursionDraws == {<<800, 200>>, <<1500, 400>>}

NormalUnitDraws == {12, 18}

DegradedUnitDraws == {6, 10}

QuietDraw ==
    [driftT |-> 0, driftV |-> 0, onset |-> FALSE, steps |-> 4,
     excT |-> 800, excV |-> 200, unitsN |-> 15, unitsD |-> 8]

\* Draws that can make a difference for a machine in state s: the draws the
\* code does not reach (no onset while active, no excursion while calm) are
\* held at their QuietDraw value.
DrawsFor(s) ==
    LET calm ==
            IF s.anomaly_active THEN {}
            ELSE {[QuietDraw EXCEPT !.driftT = dr[1], !.driftV = dr[2], !.unitsN = u] :
                      dr \in DriftDraws, u \in NormalUnitDraws}
        onset ==
            IF s.anomaly_active THEN {}
            ELSE {[QuietDraw EXCEPT !.driftT = dr[1], !.driftV = dr[2], !.onset = TRUE,
                                    !.steps = n, !.excT = e[1], !.excV = e[2],
                                    !.unitsD = u] :
                      dr \in DriftDraws, n \in AnomalySteps, e \in ExcursionDraws,
                      u \in DegradedUnitDraws}
        active ==
            IF ~s.anomaly_active THEN {}
            ELSE {[QuietDraw EXCEPT !.driftT = dr[1], !.driftV = dr[2],
                                    !.excT = e[1], !.excV = e[2], !.unitsD = u] :
                      dr \in DriftDraws, e \in ExcursionDraws, u \in DegradedUnitDraws}
    IN  calm \cup onset \cup active

\* line 99: the onset test
Onset(s, d) == ~s.anomaly_active /\ d.onset

\* the countdown taking two steps a tick
CountdownByTwo(steps) == steps - 2

\* line 106: the countdown
Countdown(steps) == steps - 1

\* the end of the episode tested one tick late
EpisodeOverLate(steps) == steps < 0

\* line 108: the episode is over
EpisodeOver(steps) == steps <= 0

\* the clamp with its upper limit lost
ClampTempNoCeiling(t) == Max(60000, t)

\* lines 114-115: clamp physical limits
ClampTemp(t) == Max(60000, Min(t, 95000))

ClampVib(v) == Max(1500, Min(v, 8000))

\* units chosen by the flag left after the countdown
UnitsByFinalFlag(anomaly, active_after, d) ==
    IF ~active_after THEN d.unitsN ELSE d.unitsD

\* line 117: units by the tick's anomaly indicator
UnitsFor(anomaly, active_after, d) ==
    IF anomaly = 0 THEN d.unitsN ELSE d.unitsD

\* lines 92-126: one loop iteration for machine m in state s with draws d.
\* Gives the new state and the row appended to rows.
GenMachine(m, s, d, now) ==
    LET t1 == s.temp + d.driftT
        v1 == s.vib + d.driftV
        on == Onset(s, d)
        act1 == s.anomaly_active \/ on
        steps1 == IF on THEN d.steps ELSE s.anomaly_steps
        t2 == IF act1 THEN t1 + d.excT ELSE t1
        v2 == IF act1 THEN v1 + d.excV ELSE v1
        steps2 == IF act1 THEN Countdown(steps1) ELSE steps1
        anomaly == IF act1 THEN 1 ELSE 0
        act2 == IF act1 /\ EpisodeOver(steps2) THEN FALSE ELSE act1
        t3 == ClampTemp(t2)
        v3 == ClampVib(v2)
    IN  [state |-> [temp |-> t3, vib |-> v3,
                    anomaly_active |-> act2, anomaly_steps |-> steps2],
         row |-> [timestamp_utc |-> now,
                  machine_id |-> m,
                  temperature |-> Round2(t3),
                  vibration |-> Round2(v3),
                  units |-> UnitsFor(anomaly, act2, d),
                  anomaly |-> anomaly],
         onset |-> on]

\* lines 73-82: the state every machine starts from
InitMachineState ==
    [m \in MachineIds |->
        [temp |-> BASELINES[m].temp, vib |-> BASELINES[m].vib,
         anomaly_active |-> FALSE, anomaly_steps |-> 0]]

\* lines 87-128: generate_live_data with the draws dr (one record a machine)
GenResult(ms, dr, now) == [m \in MachineIds |-> GenMachine(m, ms[m], dr[m], now)]

GenRows(res) == [i \in 1..Len(MACHINES) |-> res[MACHINES[i]].row]

\* ticks of the episode machine m is in, the onset tick counted as the first
EpisodeTicksAfter(old, s, r) ==
    IF r.onset THEN 1
    ELSE IF s.anomaly_active THEN old + 1
    ELSE old

\* generate_live_data called once, as a unit
GenerateLiveData ==
    /\ program = "app.py"
    /\ gen_calls < MaxTicks
    /\ \E d \in DrawsFor(machine_state[focus]) :
          LET dr == [m \in MachineIds |-> IF m = focus THEN d ELSE QuietDraw]
              res == GenResult(machine_state, dr, clock)
          IN  /\ machine_state' = [m \in MachineIds |-> res[m].state]
              /\ new_data' = GenRows(res)
              /\ episode_ticks' =
                    [m \in MachineIds |->
                        EpisodeTicksAfter(episode_ticks[m], machine_state[m], res[m])]
    /\ gen_calls' = gen_calls + 1
    /\ UNCHANGED <<program, focus, clock, app1GenVars, runVars>>

\* ------------------------------------------------------------------------
\* src/app1.py : machine state and insert_live_data
\* ------------------------------------------------------------------------
\* lines 62-69: np.random.uniform(62, 68), np.random.uniform(2.5, 3.2) and
\* np.random.randint(13, 16), whose upper end is exclusive
InitDraws1 ==
    {[temperature |-> 62000, vibration |-> 2500, units |-> 13],
     [temperature |-> 65437, vibration |-> 2871, units |-> 14],
     [temperature |-> 68000, vibration |-> 3200, units |-> 15]}

QuietInit1 == [temperature |-> 65000, vibration |-> 2850, units |-> 14]

\* The random draws of one loop iteration of insert_live_data:
\* temp_change  np.random.uniform(-0.4, 0.4)
\* spike        np.random.rand() < 0.05, adding np.random.uniform(0.6, 1.2)
\* vib_change   np.random.uniform(-0.08, 0.08)
\* vib_add      np.random.uniform(0.05, 0.15), used above 75 degrees
\* units_step   np.random.randint(-1, 2), whose upper end is exclusive
Draws1 ==
    {[temp_change |-> 400, spike |-> TRUE, spike_add |-> 1200,
      vib_change |-> 80, vib_add |-> 80, units_step |-> 1],
     [temp_change |-> -400, spike |-> FALSE, spike_add |-> 600,
      vib_change |-> -80, vib_add |-> 80, units_step |-> -1]}

QuietDraw1 ==
    [temp_change |-> 0, spike |-> FALSE, spike_add |-> 600,
     vib_change |-> 0, vib_add |-> 80, units_step |-> 0]

\* the clamp of line 85 without its upper limit
ClampTemp1NoCeiling(t) == Max(58000, t)

\* line 85
ClampTemp1(t) == Max(58000, Min(t, 82000))

\* line 91
ClampVib1(v) == Max(2000, Min(v, 6500))

\* line 93
ClampUnits1(u) == Max(10, Min(u, 18))

\* lines 79-108: one loop iteration for machine m in state s with draws d.
\* Gives the new state and the row inserted into machine_telemetry.
InsertMachine(m, s, d, now) ==
    LET temp_change == IF d.spike THEN d.temp_change + d.spike_add ELSE d.temp_change
        temperature == ClampTemp1(s.temperature + temp_change)
        vib_change == IF temperature > 75000 THEN d.vib_change + d.vib_add
                      ELSE d.vib_change
        vibration == ClampVib1(s.vibration + vib_change)
        units == ClampUnits1(s.units + d.units_step)
    IN  [state |-> [temperature |-> temperature, vibration |-> vibration,
                    units |-> units],
         row |-> [timestamp |-> now,
                  machine_id |-> m,
                  temperature |-> Round2(temperature),
                  vibration |-> Round2(vibration),
                  units |-> units]]

\* lines 74-111: insert_live_data with the draws dr (one record a machine)
InsertResult(ms, dr, now) ==
    [m \in MachineIds |-> InsertMachine(m, ms[m], dr[m], now)]

InsertRows(res) == [i \in 1..Len(MACHINES) |-> res[MACHINES[i]].row]

\* insert_live_data called once, as a unit
InsertLiveData ==
    /\ program = "app1.py"
    /\ insert_calls < MaxInserts
    /\ insert_calls' = insert_calls + 1
    /\ \E d \in Draws1 :
          LET dr == [m \in MachineIds |-> IF m = focus THEN d ELSE QuietDraw1]
              res == InsertResult(machine_state1, dr, clock)
          IN  /\ machine_state1' = [m \in MachineIds |-> res[m].state]
              /\ inserted' = InsertRows(res)
    /\ UNCHANGED <<program, focus, clock, appGenVars, runVars>>

\* ------------------------------------------------------------------------
\* Sequences of rows: the operations of SQL and pandas the scripts use
\* ------------------------------------------------------------------------
\* A sequence built row by row from another one is built from the value of
\* that one, taken once as the only member of a set.
Reverse(seq) ==
    CHOOSE r \in {[i \in 1..Len(s) |-> s[Len(s) + 1 - i]] : s \in {seq}} : TRUE

\* the time of a row (timestamp_utc in app.py, timestamp in app1.py)
IsAscending(times) == \A i \in 1..(Len(times) - 1) : times[i] <= times[i + 1]

IsDescending(times) == \A i \in 1..(Len(times) - 1) : times[i] >= times[i + 1]

LeastOf(S) == CHOOSE x \in S : \A y \in S : x <= y

GreatestOf(S) == CHOOSE x \in S : \A y \in S : x >= y

Times(seq) == [i \in 1..Len(seq) |-> seq[i].timestamp]

\* the positions of seq whose timestamp is that of a neighbour
TiedPositions(seq) ==
    {i \in 1..Len(seq) :
        \/ (i > 1 /\ seq[i - 1].timestamp = seq[i].timestamp)
        \/ (i < Len(seq) /\ seq[i].timestamp = seq[i + 1].timestamp)}

\* seq with the rows at the positions tied, runs of equal timestamps, turned
\* around run by run
TurnedAt(seq, tied) ==
    [i \in 1..Len(seq) |->
        IF i \notin tied THEN seq[i]
        ELSE LET g == {j \in tied : seq[j].timestamp = seq[i].timestamp}
             IN  seq[LeastOf(g) + GreatestOf(g) - i]]

\* an ascending sequence with every run of equal timestamps turned around
ReverseTies(seq) ==
    CHOOSE r \in {TurnedAt(s, tied) : s \in {seq}, tied \in {TiedPositions(seq)}} :
        TRUE

\* any sequence sorted by counting, for each row, the rows that go before it
RankSort(seq, rev) ==
    LET n == Len(seq)
        before(j, i) ==
            \/ seq[j].timestamp < seq[i].timestamp
            \/ (seq[j].timestamp = seq[i].timestamp /\ IF rev THEN j > i ELSE j < i)
        ranks == {[i \in 1..n |-> Cardinality({j \in 1..n : before(j, i)}) + 1]}
    IN  CHOOSE sorted \in {[k \in 1..n |-> seq[CHOOSE i \in 1..n : rank[i] = k]] :
                               rank \in ranks} : TRUE

\* Rows sorted by timestamp, smallest first.  Neither MySQL nor the default
\* sort of pandas fixes the order of rows with equal timestamps: they stay
\* in the order of seq (rev false) or come out in the opposite order.
SortRows(seq, rev) ==
    IF IsAscending(Times(seq)) THEN (IF rev THEN ReverseTies(seq) ELSE seq)
    ELSE IF IsDescending(Times(seq))
         THEN (IF rev THEN Reverse(seq) ELSE ReverseTies(Reverse(seq)))
    ELSE RankSort(seq, rev)

SortAscending(seq, rev) ==
    CHOOSE r \in {SortRows(s, rev) : s \in {seq}} : TRUE

FirstRows(seq, n) == SubSeq(seq, 1, Min(Len(seq), n))

\* the calendar date of a time on the clock the times are read from
DateOf(t) == t \div 86400

\* today_df["temperature"].idxmax(): the first row with the greatest
\* temperature, rows non-empty
FirstMaxTemperature(rows) ==
    CHOOSE p \in {Head(SelectSeq(rows, LAMBDA r : r.temperature = top)) :
                     top \in {GreatestOf({rows[i].temperature : i \in 1..Len(rows)})}} :
        TRUE

\* ------------------------------------------------------------------------
\* src/app1.py : the script
\* ------------------------------------------------------------------------
TEMP_WARNING == 8000

TEMP_CRITICAL == 8500

VIB_WARNING == 650

VIB_CRITICAL == 750

\* LIMIT 500 of the query
QUERY_LIMIT == 500

\* timedelta(minutes=10)
WINDOW_SECONDS == 600

\* line 116: the default machine_id of insert_critical_sample
CRITICAL_MACHINE == "M-4"

\* lines 116-127: the row insert_critical_sample writes at time now
CriticalSample(now) ==
    [timestamp |-> now, machine_id |-> CRITICAL_MACHINE,
     temperature |-> 8850, vibration |-> 780, units |-> 10]

\* the table after one more row for machine m
InsertInto(table, m, row) == [table EXCEPT ![m] = Append(@, row)]

\* the table after the rows of one insert_live_data call
InsertAll(table, rows) ==
    [m \in MachineIds |->
        table[m] \o SelectSeq(rows, LAMBDA r : r.machine_id = m)]

\* line 144: ORDER BY timestamp DESC
OrderByTimestampDesc(rows, rev) == Reverse(SortAscending(rows, ~rev))

\* lines 139-149: the query for machine m
ReadSql(table, m, rev) ==
    FirstRows(OrderByTimestampDesc(table[m], rev), QUERY_LIMIT)

\* the sort left out
SortValuesSkipped(rows, rev) == rows

\* line 157: df.sort_values("timestamp")
SortValues(rows, rev) == SortAscending(rows, rev)

\* the comparisons strict instead of inclusive
ClassifyStrict(t, v) ==
    IF t > TEMP_CRITICAL \/ v > VIB_CRITICAL THEN "CRITICAL"
    ELSE IF t > TEMP_WARNING \/ v > VIB_WARNING THEN "WARNING"
    ELSE "NORMAL"

\* lines 166-171: the status of a reading
Classify(t, v) ==
    IF t >= TEMP_CRITICAL \/ v >= VIB_CRITICAL THEN "CRITICAL"
    ELSE IF t >= TEMP_WARNING \/ v >= VIB_WARNING THEN "WARNING"
    ELSE "NORMAL"

\* lines 176-177: the counter after a run with this status
CyclesAfter(cycles, status) ==
    IF status = "CRITICAL" THEN cycles + 1 ELSE cycles

\* lines 179-181: round(cycles * refresh_rate / 60, 2), in hundredths of a
\* minute; 100 * seconds / 60 is never an exact half
DowntimeMinutes(cycles, rate) ==
    LET n == 5 * cycles * rate
    IN  IF n % 3 = 2 THEN (n \div 3) + 1 ELSE n \div 3

\* line 249: the rows of today
TodayRows(rows, now) == SelectSeq(rows, LAMBDA r : DateOf(r.timestamp) = DateOf(now))

\* lines 251-252: <<the peak>> of today's rows, <<>> when there are none
PeakOf(today_df) ==
    IF today_df = <<>> THEN <<>> ELSE <<FirstMaxTemperature(today_df)>>

\* lines 260-263: the rows of today_df within ten minutes of the peak pk
WindowRows(today_df, pk) ==
    IF pk = <<>> THEN <<>>
    ELSE SelectSeq(today_df,
             LAMBDA r : /\ r.timestamp >= pk[1].timestamp - WINDOW_SECONDS
                        /\ r.timestamp <= pk[1].timestamp + WINDOW_SECONDS)

\* whether two of the rows share a timestamp
HasTies(rows) ==
    Cardinality({rows[i].timestamp : i \in 1..Len(rows)}) # Len(rows)

TieOrders(rows) == IF HasTies(rows) THEN BOOLEAN ELSE {FALSE}

\* time between insert_critical_sample and insert_live_data of one run: the
\* two datetime.now() readings can fall into the same second or not
InRunDelays(inject, pause) == IF inject /\ ~pause THEN {0, 1} ELSE {0}

\* the tick bookkeeping after a run at time now that did or did not tick
TickBookkeeping(generated, now, rate, status) ==
    /\ ticked' = generated
    /\ last_tick' = IF generated THEN <<[time |-> now, rate |-> rate]>> ELSE last_tick
    /\ tick_gap' = IF generated /\ last_tick # <<>> THEN now - last_tick[1].time
                   ELSE tick_gap
    /\ gap_period' = IF generated /\ last_tick # <<>> THEN Min(last_tick[1].rate, rate)
                     ELSE gap_period
    /\ critical_ticks' = IF generated /\ status = "CRITICAL" THEN critical_ticks + 1
                         ELSE critical_ticks

\* lines 132-287: one run of the script, started at time now with the
\* widget values sel, rate, pause and inject; the random draws of the focus
\* machine are taken from draws
App1ScriptWith(draws, sel, rate, pause, inject, now) ==
    \E delay \in InRunDelays(inject, pause) :
    \E d \in (IF pause \/ focus \notin MachineIds THEN {QuietDraw1} ELSE draws) :
        LET db1 == IF inject
                   THEN InsertInto(db, CRITICAL_MACHINE, CriticalSample(now))
                   ELSE db
            t_ins == now + delay
            dr == [m \in MachineIds |-> IF m = focus THEN d ELSE QuietDraw1]
            res == InsertResult(machine_state1, dr, t_ins)
        IN  \E db2 \in {IF pause THEN db1 ELSE InsertAll(db1, InsertRows(res))} :
            /\ db' = db2
            /\ critical_samples' =
                  IF inject THEN critical_samples \cup {CriticalSample(now)}
                  ELSE critical_samples
            /\ machine_state1' =
                  IF pause THEN machine_state1 ELSE [m \in MachineIds |-> res[m].state]
            /\ inserted' = IF pause THEN inserted ELSE InsertRows(res)
            /\ insert_calls' = IF pause THEN insert_calls ELSE insert_calls + 1
            /\ clock' = t_ins
            /\ \E rev \in TieOrders(db2[sel]), sortRev \in TieOrders(db2[sel]) :
               \E q \in {ReadSql(db2, sel, rev)} :
                  IF q = <<>>
                  THEN \* lines 151-154: no data, wait and run again
                       /\ df' = <<>>
                       /\ latest' = <<>>
                       /\ machine_status' = "NONE"
                       /\ peak' = <<>>
                       /\ window_df' = <<>>
                       /\ UNCHANGED <<critical_cycles, estimated_downtime_minutes>>
                       /\ TickBookkeeping(~pause, t_ins, rate, "NONE")
                  ELSE \E sorted \in {SortValues(q, sortRev)} :
                       \E today_df \in {TodayRows(sorted, t_ins)} :
                       \E pk \in {PeakOf(today_df)} :
                          LET lt == sorted[Len(sorted)]
                              status == Classify(lt.temperature, lt.vibration)
                              cycles == CyclesAfter(critical_cycles, status)
                          IN  /\ df' = sorted
                              /\ latest' = <<lt>>
                              /\ machine_status' = status
                              /\ critical_cycles' = cycles
                              /\ estimated_downtime_minutes' =
                                    DowntimeMinutes(cycles, rate)
                              /\ peak' = pk
                              /\ window_df' = WindowRows(today_df, pk)
                              /\ TickBookkeeping(~pause, t_ins, rate, status)
            /\ selected_machine' = sel
            /\ refresh_rate' = rate
            /\ pause_generation' = pause
            /\ rerun_in' = rate
            /\ runs' = runs + 1
            /\ UNCHANGED <<program, focus, appGenVars, appVars>>

\* one run of the script with the draws explored by default
App1Script(sel, rate, pause, inject, now) ==
    App1ScriptWith(Draws1, sel, rate, pause, inject, now)

\* what the user may pick
SelectChoices == {"M-1", "M-4"}

RefreshChoices == {2, 5}

\* how long after the end of a script the user may act
UserDelays == {1, 5}

\* The time of a run started by the user.  A script that has ended (app.py
\* after showing the data) is run again when the user acts.  A script still
\* running takes the request at its next Streamlit call: not before
\* time.sleep returns when it is asleep (app1.py line 286), at once when it
\* is about to rerun (app.py line 142).
UserTimes ==
    IF rerun_in < 0 THEN {clock + e : e \in UserDelays}
    ELSE IF runs = 0 THEN {}
    ELSE {clock + rerun_in}

\* A request that reaches app1.py while it is past its database work and
\* not yet asleep (lines 186-285) ends that run at its next Streamlit call
\* and starts the next one at once.  Explored for the machine selection.
EarlyTimes == IF runs > 0 /\ rerun_in > 0 THEN {clock} ELSE {}

\* lines 286-287 (and 153-154): the run started by st.rerun() after the sleep
App1Rerun ==
    /\ program = "app1.py"
    /\ runs < MaxRuns
    /\ rerun_in >= 0
    /\ App1Script(selected_machine, refresh_rate, pause_generation, FALSE,
                  clock + rerun_in)

\* line 47: the run started by picking another machine
App1Select ==
    /\ program = "app1.py"
    /\ runs < MaxRuns
    /\ \E now \in UserTimes \cup EarlyTimes, sel \in SelectChoices \ {selected_machine} :
          App1Script(sel, refresh_rate, pause_generation, FALSE, now)

\* lines 49-51: the run started by moving the slider
App1Slider ==
    /\ program = "app1.py"
    /\ runs < MaxRuns
    /\ \E now \in UserTimes, rate \in RefreshChoices \ {refresh_rate} :
          App1Script(selected_machine, rate, pause_generation, FALSE, now)

\* line 53: the run started by ticking or clearing the pause checkbox
App1Pause ==
    /\ program = "app1.py"
    /\ runs < MaxRuns
    /\ \E now \in UserTimes :
          App1Script(selected_machine, refresh_rate, ~pause_generation, FALSE, now)

\* line 57: the run started by the button; inject_critical is true in it only
App1Inject ==
    /\ program = "app1.py"
    /\ runs < MaxRuns
    /\ \E now \in UserTimes :
          App1Script(selected_machine, refresh_rate, pause_generation, TRUE, now)

\* a table left by an earlier session: one critical sample written while
\* paused, then PriorTicks ticks five seconds apart, the last one five
\* seconds before start
PriorTable(start) ==
    [m \in MachineIds |->
        (IF m = CRITICAL_MACHINE
         THEN <<CriticalSample(start - 5 * (PriorTicks + 1))>> ELSE <<>>)
        \o [i \in 1..PriorTicks |->
               InsertMachine(m, QuietInit1, QuietDraw1,
                             start - 5 * (PriorTicks + 1 - i)).row]]

\* the rows of that table written by insert_critical_sample
PriorSamples(start) == {CriticalSample(start - 5 * (PriorTicks + 1))}

\* ------------------------------------------------------------------------
\* src/app.py : the script
\* ------------------------------------------------------------------------
\* IST = pytz.timezone("Asia/Kolkata"): five and a half hours ahead of UTC
IST_OFFSET == 19800

\* lines 155-156 and 223: the calendar date in IST of a UTC time
DateIst(t) == DateOf(t + IST_OFFSET)

\* the draws explored for the focus machine by a script run
RunDraws(s) ==
    {d \in DrawsFor(s) : /\ d.unitsN # 18 /\ d.unitsD # 10 /\ d.excT = 800
                         /\ d.onset => (d.steps = ANOMALY_LO /\ d.driftT = 153)}

\* lines 137-140: pd.concat([st.session_state.data, new_data])
Concat(frame, rows) == frame \o rows

\* line 158: the rows of the selected machine
FilterMachine(frame, m) == SelectSeq(frame, LAMBDA r : r.machine_id = m)

\* line 223: the rows of today
TodayRowsIst(rows, now) ==
    SelectSeq(rows, LAMBDA r : DateIst(r.timestamp_utc) = DateIst(now))

\* lines 133-243: one run of the script, started at time now with the
\* widget values sel and rate
AppScript(sel, rate, now) ==
    /\ IF now >= next_refresh
       THEN \* lines 135-142: generate, append, schedule, st.rerun()
            /\ gen_calls < MaxTicks
            /\ \E d \in RunDraws(machine_state[focus]) :
                  LET dr == [m \in MachineIds |-> IF m = focus THEN d ELSE QuietDraw]
                      res == GenResult(machine_state, dr, now)
                  IN  /\ machine_state' = [m \in MachineIds |-> res[m].state]
                      /\ new_data' = GenRows(res)
                      /\ episode_ticks' =
                            [m \in MachineIds |->
                                EpisodeTicksAfter(episode_ticks[m], machine_state[m],
                                                  res[m])]
                      /\ data' = Concat(data, GenRows(res))
                      /\ appended' = appended \o GenRows(res)
            /\ gen_calls' = gen_calls + 1
            /\ next_refresh' = now + rate
            /\ rerun_in' = 0
            /\ TickBookkeeping(TRUE, now, rate, "NONE")
            /\ UNCHANGED viewVars
       ELSE \* lines 147-243: show the stored data
            /\ \E rows \in {FilterMachine(data, sel)} :
                  IF rows = <<>>
                  THEN df' = <<>> /\ latest' = <<>> /\ peak' = <<>>
                  ELSE /\ df' = rows
                       /\ latest' = <<rows[Len(rows)]>>
                       /\ peak' = PeakOf(TodayRowsIst(rows, now))
            /\ rerun_in' = -1
            /\ TickBookkeeping(FALSE, now, rate, "NONE")
            /\ UNCHANGED <<appGenVars, appVars>>
    /\ clock' = now
    /\ selected_machine' = sel
    /\ refresh_rate' = rate
    /\ runs' = runs + 1
    /\ UNCHANGED <<program, focus, app1GenVars, pause_generation, app1Vars>>

\* line 142: the run started by st.rerun()
AppRerun ==
    /\ program = "app.py"
    /\ runs < MaxAppRuns
    /\ rerun_in >= 0
    /\ AppScript(selected_machine, refresh_rate, clock + rerun_in)

\* lines 32-35: the run started by picking another machine
AppSelect ==
    /\ program = "app.py"
    /\ runs < MaxAppRuns
    /\ \E now \in UserTimes, sel \in SelectChoices \ {selected_machine} :
          AppScript(sel, refresh_rate, now)

\* lines 37-40: the run started by moving the slider
AppSlider ==
    /\ program = "app.py"
    /\ runs < MaxAppRuns
    /\ \E now \in UserTimes, rate \in RefreshChoices \ {refresh_rate} :
          AppScript(selected_machine, rate, now)

\* ------------------------------------------------------------------------
\* src/live_data_writer.py
\* ------------------------------------------------------------------------
\* time.sleep(5)
WRITE_INTERVAL == 5

\* lines 31-38: round(random.uniform(60, 95), 2), round(random.uniform(2, 9), 2)
\* and random.randint(5, 20)
WriterDraws ==
    {[temperature |-> 6000, vibration |-> 200, units |-> 5],
     [temperature |-> 8500, vibration |-> 649, units |-> 12],
     [temperature |-> 9500, vibration |-> 900, units |-> 20]}

QuietWriterDraw == [temperature |-> 7000, vibration |-> 400, units |-> 12]

\* lines 31-38: generate_machine_data
GenerateMachineData(m, d, now) ==
    [timestamp |-> now, machine_id |-> m, temperature |-> d.temperature,
     vibration |-> d.vibration, units |-> d.units]

\* lines 68-76: one iteration of the loop of main
WriterLoop ==
    /\ program = "live_data_writer.py"
    /\ runs < MaxRuns
    /\ rerun_in >= 0
    /\ \E d \in WriterDraws :
          LET now == clock + rerun_in
              rows == [i \in 1..Len(MACHINES) |->
                          GenerateMachineData(MACHINES[i],
                              IF MACHINES[i] = focus THEN d ELSE QuietWriterDraw, now)]
          IN  /\ db' = InsertAll(db, rows)
              /\ clock' = now
              /\ TickBookkeeping(TRUE, now, WRITE_INTERVAL, "NONE")
    /\ rerun_in' = WRITE_INTERVAL
    /\ runs' = runs + 1
    /\ UNCHANGED <<program, focus, appGenVars, app1GenVars, widgetVars, appVars,
                   critical_samples, critical_cycles, machine_status,
                   estimated_downtime_minutes, window_df, viewVars>>

\* the variables of the script runs before any run
RunVarsIdle ==
    /\ runs = 0
    /\ rerun_in = 0
    /\ selected_machine = MACHINES[1]
    /\ refresh_rate = 5
    /\ pause_generation = FALSE
    /\ data = <<>>
    /\ next_refresh = 0
    /\ appended = <<>>
    /\ db = [m \in MachineIds |-> <<>>]
    /\ critical_samples = {}
    /\ critical_cycles = 0
    /\ df = <<>>
    /\ latest = <<>>
    /\ machine_status = "NONE"
    /\ estimated_downtime_minutes = 0
    /\ peak = <<>>
    /\ window_df = <<>>
    /\ ticked = FALSE
    /\ tick_gap = -1
    /\ gap_period = -1
    /\ last_tick = <<>>
    /\ critical_ticks = 0

\* ------------------------------------------------------------------------
\* The two generators, called tick after tick
\* ------------------------------------------------------------------------
GenInit ==
    /\ program \in {"app.py", "app1.py"}
    /\ focus \in MachineIds
    /\ clock = 0
    /\ machine_state = InitMachineState
    /\ new_data = <<>>
    /\ gen_calls = 0
    /\ episode_ticks = [m \in MachineIds |-> 0]
    /\ \E i \in (IF program = "app1.py" THEN InitDraws1 ELSE {QuietInit1}) :
          machine_state1 = [m \in MachineIds |-> IF m = focus THEN i ELSE QuietInit1]
    /\ inserted = <<>>
    /\ insert_calls = 0
    /\ RunVarsIdle

GenNext == GenerateLiveData \/ InsertLiveData

SpecGen == GenInit /\ [][GenNext]_vars

\* ------------------------------------------------------------------------
\* Properties of the generators (SpecGen)
\* ------------------------------------------------------------------------
\* C1: after every call of generate_live_data, and initially, every machine
\* has anomaly_active true exactly when anomaly_steps is greater than 0.
C1_FlagMatchesCountdown ==
    \A m \in MachineIds :
        machine_state[m].anomaly_active <=> (machine_state[m].anomaly_steps > 0)

\* an episode has started, run its ticks and ended
C1_Witness ==
    \E m \in MachineIds :
        /\ episode_ticks[m] > 0
        /\ ~machine_state[m].anomaly_active
        /\ machine_state[m].anomaly_steps = 0

\* C2: counting the onset tick as the first, an episode is never cleared
\* before its tick ANOMALY_LO and is always cleared by the end of its tick
\* ANOMALY_HI.
C2_EpisodeLength ==
    \A m \in MachineIds :
        /\ machine_state[m].anomaly_active =>
               (episode_ticks[m] >= 1 /\ episode_ticks[m] < ANOMALY_HI)
        /\ (~machine_state[m].anomaly_active /\ episode_ticks[m] > 0) =>
               (episode_ticks[m] >= ANOMALY_LO /\ episode_ticks[m] <= ANOMALY_HI)

\* an episode of the greatest length has just been cleared
C2_Witness ==
    \E m \in MachineIds :
        ~machine_state[m].anomaly_active /\ episode_ticks[m] = ANOMALY_HI

\* C3 as stated: the units of a tick's sample are in the degraded range
\* exactly when anomaly_active is true after the tick's update, and in the
\* normal range exactly when it is false.
C3_UnitsFollowFinalFlag ==
    \A i \in 1..Len(new_data) :
        LET r == new_data[i]
            active == machine_state[r.machine_id].anomaly_active
        IN  /\ (r.units \in DegradedUnits) <=> active
            /\ (r.units \in NormalUnits) <=> ~active

\* C3 amended: the units of a tick's sample are in the degraded range
\* exactly when anomaly_active is true when the anomaly-effect step begins
\* (after the onset step, before the countdown), which is when the sample's
\* anomaly flag is 1: on every tick of an episode, its last tick included.
\* The machine was in an episode at that point exactly when the flag is
\* set before the call or after it.
C3_UnitsFollowTickFlag ==
    [][gen_calls' # gen_calls =>
        \A i \in 1..Len(new_data') :
            LET r == new_data'[i]
                m == r.machine_id
                inEpisode == machine_state[m].anomaly_active
                                \/ machine_state'[m].anomaly_active
            IN  /\ (r.units \in DegradedUnits) <=> inEpisode
                /\ (r.units \in NormalUnits) <=> ~inEpisode
                /\ (r.anomaly = 1) <=> inEpisode]_vars

\* the last tick of an episode: degraded units, flag already cleared
C3_Witness ==
    \E i \in 1..Len(new_data) :
        /\ new_data[i].units \in DegradedUnits
        /\ new_data[i].anomaly = 1
        /\ ~machine_state[new_data[i].machine_id].anomaly_active

\* C4: every sample of a tick and the state carried to the next tick have
\* temperature and vibration inside the clamp bounds of their generator.
C4_WithinClampBounds ==
    /\ \A m \in MachineIds :
          /\ machine_state[m].temp >= 60000 /\ machine_state[m].temp <= 95000
          /\ machine_state[m].vib >= 1500 /\ machine_state[m].vib <= 8000
          /\ machine_state1[m].temperature >= 58000
          /\ machine_state1[m].temperature <= 82000
          /\ machine_state1[m].vibration >= 2000
          /\ machine_state1[m].vibration <= 6500
    /\ \A i \in 1..Len(new_data) :
          /\ new_data[i].temperature >= 6000 /\ new_data[i].temperature <= 9500
          /\ new_data[i].vibration >= 150 /\ new_data[i].vibration <= 800
    /\ \A i \in 1..Len(inserted) :
          /\ inserted[i].temperature >= 5800 /\ inserted[i].temperature <= 8200
          /\ inserted[i].vibration >= 200 /\ inserted[i].vibration <= 650

\* a drift far above the range was cut to the upper limits
C4_Witness ==
    \E i \in 1..Len(new_data) :
        /\ new_data[i].temperature = 9500
        /\ new_data[i].vibration = 800
        /\ machine_state[new_data[i].machine_id].temp = 95000

\* ------------------------------------------------------------------------
\* The KPI logic of app1.py applied to one latest sample
\* ------------------------------------------------------------------------
KpiTemperatures ==
    {5800, 6500, 7999, 8000, 8001, 8250, 8499, 8500, 8501, 8850, 9500}

KpiVibrations == {200, 285, 649, 650, 651, 700, 749, 750, 751, 780}

KpiInit ==
    /\ program = "app1.py"
    /\ focus = CRITICAL_MACHINE
    /\ clock = 0
    /\ machine_state = InitMachineState
    /\ new_data = <<>>
    /\ gen_calls = 0
    /\ episode_ticks = [m \in MachineIds |-> 0]
    /\ machine_state1 = [m \in MachineIds |-> QuietInit1]
    /\ inserted = <<>>
    /\ insert_calls = 0
    /\ runs = 0
    /\ rerun_in = 0
    /\ selected_machine = MACHINES[1]
    /\ refresh_rate = 5
    /\ pause_generation = FALSE
    /\ data = <<>>
    /\ next_refresh = 0
    /\ appended = <<>>
    /\ db = [m \in MachineIds |-> <<>>]
    /\ critical_samples = {}
    /\ critical_cycles = 0
    /\ df = <<>>
    /\ \E t \in KpiTemperatures, v \in KpiVibrations :
          latest = <<[timestamp |-> 0, machine_id |-> MACHINES[1], temperature |-> t,
                      vibration |-> v, units |-> 14]>>
    /\ machine_status = "NONE"
    /\ estimated_downtime_minutes = 0
    /\ peak = <<>>
    /\ window_df = <<>>
    /\ ticked = FALSE
    /\ tick_gap = -1
    /\ gap_period = -1
    /\ last_tick = <<>>
    /\ critical_ticks = 0

\* src/app1.py lines 166-171 on the sample in latest
KpiLogic ==
    /\ program = "app1.py"
    /\ latest # <<>>
    /\ machine_status' = Classify(latest[1].temperature, latest[1].vibration)
    /\ UNCHANGED <<program, focus, clock, appGenVars, app1GenVars, runs, rerun_in,
                   widgetVars, appVars, db, critical_samples, critical_cycles,
                   estimated_downtime_minutes, window_df, viewVars, tickVars>>

KpiNext == KpiLogic

SpecKpi == KpiInit /\ [][KpiNext]_vars

\* ------------------------------------------------------------------------
\* Properties of the KPI logic (SpecKpi)
\* ------------------------------------------------------------------------
\* C5: the status of the latest sample is CRITICAL when its temperature is
\* at least 85 or its vibration at least 7.5, otherwise WARNING when its
\* temperature is at least 80 or its vibration at least 6.5, otherwise
\* NORMAL; the status is one of the three and a value at a threshold is in
\* the higher tier.  Temperatures and vibrations are in hundredths.
C5_StatusByThresholds ==
    machine_status # "NONE" =>
        LET t == latest[1].temperature
            v == latest[1].vibration
        IN  /\ machine_status \in {"NORMAL", "WARNING", "CRITICAL"}
            /\ machine_status = "CRITICAL" <=> (t >= 8500 \/ v >= 750)
            /\ machine_status = "WARNING" <=>
                  (~(t >= 8500 \/ v >= 750) /\ (t >= 8000 \/ v >= 650))
            /\ machine_status = "NORMAL" <=> (t < 8000 /\ v < 650)

\* a sample exactly at the critical temperature, with a quiet vibration, has
\* been classified CRITICAL
C5_Witness ==
    /\ machine_status = "CRITICAL"
    /\ latest[1].temperature = 8500
    /\ latest[1].vibration < 650


\* ------------------------------------------------------------------------
\* The scripts, run after run
\* ------------------------------------------------------------------------
RunInit ==
    /\ program \in {"app.py", "app1.py", "live_data_writer.py"}
    /\ machine_state = InitMachineState
    /\ new_data = <<>>
    /\ gen_calls = 0
    /\ episode_ticks = [m \in MachineIds |-> 0]
    /\ machine_state1 = [m \in MachineIds |-> QuietInit1]
    /\ inserted = <<>>
    /\ insert_calls = 0
    /\ runs = 0
    /\ rerun_in = 0
    /\ selected_machine = MACHINES[1]
    /\ refresh_rate = 5
    /\ pause_generation = FALSE
    /\ data = <<>>
    /\ appended = <<>>
    /\ \/ /\ program = "app.py"
          /\ focus = MACHINES[1]
          /\ clock \in {30000, 66597}
          /\ db = [m \in MachineIds |-> <<>>]
          /\ critical_samples = {}
       \/ /\ program = "app1.py"
          /\ focus = CRITICAL_MACHINE
          /\ clock = 86397
          /\ db = [m \in MachineIds |-> <<>>]
          /\ critical_samples = {}
       \/ /\ program = "app1.py"
          /\ focus = NO_FOCUS
          /\ clock = 43200
          /\ db = PriorTable(43200)
          /\ critical_samples = PriorSamples(43200)
       \/ /\ program = "live_data_writer.py"
          /\ focus = MACHINES[1]
          /\ clock = 86397
          /\ db = [m \in MachineIds |-> <<>>]
          /\ critical_samples = {}
    /\ next_refresh = clock
    /\ critical_cycles = 0
    /\ df = <<>>
    /\ latest = <<>>
    /\ machine_status = "NONE"
    /\ estimated_downtime_minutes = 0
    /\ peak = <<>>
    /\ window_df = <<>>
    /\ ticked = FALSE
    /\ tick_gap = -1
    /\ gap_period = -1
    /\ last_tick = <<>>
    /\ critical_ticks = 0

Next ==
    \/ AppRerun \/ AppSelect \/ AppSlider
    \/ App1Rerun \/ App1Select \/ App1Slider \/ App1Pause \/ App1Inject
    \/ WriterLoop

Spec == RunInit /\ [][Next]_vars

\* ------------------------------------------------------------------------
\* Properties of the script runs (Spec)
\* ------------------------------------------------------------------------
\* C6: in app1.py the counter critical_cycles equals the number of ticks
\* whose sample classified CRITICAL, whatever runs were paused, started by
\* the inject button or made after the selected machine changed, and the
\* downtime estimate is that number of ticks times the tick period (shown in
\* minutes, rounded to hundredths).
C6_CounterCountsCriticalTicks ==
    program = "app1.py" =>
        /\ critical_cycles = critical_ticks
        /\ estimated_downtime_minutes = DowntimeMinutes(critical_ticks, refresh_rate)

\* C7: no two ticks of a driver are less than one refresh period apart, and
\* while the driver is not paused a next run is always scheduled, so that a
\* tick comes in every period without the user doing anything.
C7_TickOncePerPeriod ==
    /\ tick_gap >= 0 => tick_gap >= gap_period
    /\ ~pause_generation => rerun_in >= 0

\* C8 as stated: a query for one machine returns every sample appended for
\* that machine, unchanged and in append order.
C8_QueryReturnsAllAppended ==
    runs > 0 =>
        CASE program = "app.py" ->
                 /\ data = appended
                 /\ ~ticked => df = FilterMachine(appended, selected_machine)
          [] program = "app1.py" -> df = db[selected_machine]
          [] OTHER -> TRUE

\* C8: in app.py the stored frame is every batch appended, in order, and the
\* rows shown are all rows of the selected machine in append order with
\* non-decreasing timestamps.  In app1.py the table is in non-decreasing
\* timestamp order, the rows shown have, position by position, the
\* timestamps of its last rows, the last 500 when it holds more, and each
\* row shown is a row of the table, unchanged and shown no more often than
\* it is stored; rows of one timestamp may come in either order.
C8_QueryReturnsRecentSorted ==
    runs > 0 =>
        CASE program = "app.py" ->
                 /\ data = appended
                 /\ ~ticked => df = FilterMachine(appended, selected_machine)
                 /\ \A i \in 1..Len(df) : \A j \in i..Len(df) :
                       df[i].timestamp_utc <= df[j].timestamp_utc
          [] program = "app1.py" ->
                 LET all == db[selected_machine]
                     off == Len(all) - Len(df)
                 IN  /\ Len(df) = Min(Len(all), QUERY_LIMIT)
                     /\ IsAscending(Times(all))
                     /\ \A i \in 1..Len(df) :
                           /\ df[i].timestamp = all[off + i].timestamp
                           /\ \/ df[i] = all[off + i]
                              \/ Cardinality({j \in 1..Len(df) : df[j] = df[i]})
                                    <= Cardinality({j \in 1..Len(all) : all[j] = df[i]})
          [] OTHER -> TRUE

\* app1.py has shown the 500 most recent rows of a machine whose table holds
\* 501, and in another run two rows of one timestamp
C8_Witness ==
    /\ program = "app1.py"
    /\ runs > 0
    /\ Len(db[selected_machine]) > QUERY_LIMIT
    /\ Len(df) = QUERY_LIMIT
    /\ df[1] # db[selected_machine][1]

\* C9: the daily peak shown for the selected machine is, among the stored
\* samples of that machine dated today, the one with the maximum
\* temperature, the earliest of them when several share it, and no peak is
\* shown when no stored sample is dated today.
C9_PeakOverStoredDay ==
    (runs > 0 /\ program \in {"app.py", "app1.py"} /\ (program = "app.py" => ~ticked)) =>
        LET stamps == IF program = "app.py"
                      THEN {<<r.timestamp_utc, r.temperature>> :
                               r \in {x \in Range(FilterMachine(data, selected_machine)) :
                                         DateIst(x.timestamp_utc) = DateIst(clock)}}
                      ELSE {<<r.timestamp, r.temperature>> :
                               r \in {x \in Range(db[selected_machine]) :
                                         DateOf(x.timestamp) = DateOf(clock)}}
            shown == IF peak = <<>> THEN <<>>
                     ELSE IF program = "app.py"
                          THEN <<peak[1].timestamp_utc, peak[1].temperature>>
                          ELSE <<peak[1].timestamp, peak[1].temperature>>
        IN  IF stamps = {}
            THEN peak = <<>>
            ELSE /\ shown \in stamps
                 /\ \A st \in stamps :
                       /\ st[2] <= shown[2]
                       /\ st[2] = shown[2] => shown[1] <= st[1]

\* C10: the window around the peak holds every stored sample of the machine
\* at most 10 minutes from the peak, both bounds included, on either side
\* of midnight, holds no other sample and is in timestamp order.
C10_WindowAroundPeak ==
    (program = "app1.py" /\ runs > 0 /\ peak # <<>>) =>
        LET all == db[selected_machine]
            near == {j \in 1..Len(all) :
                        /\ all[j].timestamp >= peak[1].timestamp - WINDOW_SECONDS
                        /\ all[j].timestamp <= peak[1].timestamp + WINDOW_SECONDS}
        IN  /\ Len(window_df) = Cardinality(near)
            /\ Range(window_df) = {all[j] : j \in near}
            /\ IsAscending(Times(window_df))

\* ------------------------------------------------------------------------
\* src/app1.py : a long session, the machine driven to its limits
\* ------------------------------------------------------------------------
\* script runs of a long session
MaxLiveRuns == 26

\* the user is explored acting in the last LateRuns of these runs
LateRuns == 3

\* the draws of insert_live_data that raise temperature and vibration most
HotDraw1 == CHOOSE d \in Draws1 : d.spike

\* the draws explored in a long session: the machine heats up run after
\* run, and either way once the user may act
LiveDraws == IF runs < MaxLiveRuns - LateRuns THEN {HotDraw1} ELSE Draws1

\* the user acts now
UserActive == runs >= MaxLiveRuns - LateRuns /\ runs < MaxLiveRuns

\* lines 62-69 and 46-57: a new session on an empty table
LiveInit ==
    /\ program = "app1.py"
    /\ focus \in SelectChoices
    /\ clock = 43200
    /\ machine_state = InitMachineState
    /\ new_data = <<>>
    /\ gen_calls = 0
    /\ episode_ticks = [m \in MachineIds |-> 0]
    /\ \E i \in InitDraws1 :
          machine_state1 = [m \in MachineIds |-> IF m = focus THEN i ELSE QuietInit1]
    /\ inserted = <<>>
    /\ insert_calls = 0
    /\ RunVarsIdle

\* lines 286-287: the run started by st.rerun() after the sleep
LiveRerun ==
    /\ program = "app1.py"
    /\ runs < MaxLiveRuns
    /\ rerun_in >= 0
    /\ App1ScriptWith(LiveDraws, selected_machine, refresh_rate, pause_generation,
                      FALSE, clock + rerun_in)

\* line 47: the run started by picking another machine
LiveSelect ==
    /\ program = "app1.py"
    /\ UserActive
    /\ \E now \in UserTimes, sel \in SelectChoices \ {selected_machine} :
          App1ScriptWith(LiveDraws, sel, refresh_rate, pause_generation, FALSE, now)

\* line 53: the run started by ticking or clearing the pause checkbox
LivePause ==
    /\ program = "app1.py"
    /\ UserActive
    /\ \E now \in UserTimes :
          App1ScriptWith(LiveDraws, selected_machine, refresh_rate,
                         ~pause_generation, FALSE, now)

\* line 57: the run started by the button
LiveInject ==
    /\ program = "app1.py"
    /\ UserActive
    /\ \E now \in UserTimes :
          App1ScriptWith(LiveDraws, selected_machine, refresh_rate,
                         pause_generation, TRUE, now)

LiveNext == LiveRerun \/ LiveSelect \/ LivePause \/ LiveInject

SpecLive == LiveInit /\ [][LiveNext]_vars

\* ------------------------------------------------------------------------
\* Properties of the long session
\* ------------------------------------------------------------------------
\* the statuses a sample may have
NotCritical == {"NORMAL", "WARNING"}

\* C11: in app1.py no sample written by insert_live_data is classified
\* CRITICAL (its temperature is at most 82, its vibration at most 6.5); as
\* long as the table holds no row written by insert_critical_sample, the
\* status after every tick is NORMAL or WARNING and critical_cycles stays 0;
\* and a run raises critical_cycles only when its latest row of the selected
\* machine is one written by insert_critical_sample.
C11_CriticalOnlyWhenInjected ==
    /\ [](program = "app1.py" =>
            /\ \A i \in 1..Len(inserted) :
                  /\ inserted[i].temperature <= 8200
                  /\ inserted[i].vibration <= 650
                  /\ Classify(inserted[i].temperature, inserted[i].vibration)
                        \in NotCritical
            /\ critical_samples = {} =>
                  /\ critical_cycles = 0
                  /\ machine_status \in NotCritical \cup {"NONE"}
                  /\ ticked => machine_status \in NotCritical)
    /\ [][(program = "app1.py" /\ critical_cycles' > critical_cycles) =>
            /\ latest' # <<>>
            /\ latest'[1] \in critical_samples'
            /\ \A i \in 1..Len(inserted') : latest'[1] # inserted'[i]]_vars

\* after ticks only, the latest sample of the selected machine stands at both
\* limits of the generator and the status is WARNING, the counter still 0
C11_Witness ==
    /\ program = "app1.py"
    /\ critical_samples = {}
    /\ ticked
    /\ latest # <<>>
    /\ latest[1].temperature = 8200
    /\ latest[1].vibration = 650
    /\ machine_status = "WARNING"
    /\ critical_cycles = 0
    /\ \E i \in 1..Len(inserted) : inserted[i] = latest[1]

====
